---- MODULE Spec2Model ----
\* Model of the cbb-tracker ingestion pipeline (app/ingest.py) and rating
\* engine (app/elo.py) over the entity store declared in app/models.py.
\*
\* A store is a record of three sets of rows (teams, games, ratings).  `db`
\* is the committed store; `tx` is the open session's view of it (committed
\* rows, flushed rows and in-memory changes of loaded rows) together with the
\* session's pending list of new Game objects that no flush has written yet
\* (the session factory of app/db.py has autoflush off).
\*
\* Four specifications share the variables:
\*   Spec            ingest and rating calls, one at a time, from an empty store;
\*   SpecAll         the same together with predict requests (app/main.py);
\*   SpecEngine      rating calls on stores in mid-season, where teams have
\*                   played up to 25 games;
\*   SpecConcurrent  two rating calls interleaved, each on its own session.
\*
\* Optional values (Python None) are sequences of length 0 or 1.
\* Ratings are integers in units of 1/Scale rating point; an expectancy is
\* an integer in units of 1/Scale.
EXTENDS Integers, Sequences, FiniteSets, TLC

VARIABLES db, tx, pc, payload, stats, todo, season, last, nEvents, nApply

vars == <<db, tx, pc, payload, stats, todo, season, last, nEvents, nApply>>

\* ---------------------------------------------------------------- bounds
\* events in one payload
MaxEvents == 2
\* events ingested over a whole behaviour
MaxTotalEvents == 3
\* rating-application calls over a whole behaviour
MaxApplyCalls == 2

\* ------------------------------------------------------------- constants
provider == "espn"
DEFAULT_ELO == 1500
K_BASE == 20
HOME_ADVANTAGE_ELO == 65
\* The fixed-point unit: a rating is held in 1/Scale rating points, an
\* expectancy or an outcome in 1/Scale.
Scale == 100 * 100

None == <<>>
Some(x) == <<x>>

Seasons == {"2025-26", "2026-27"}

\* ------------------------------------------------------------ the payload
\* A competitor sub-record: role tag, nested team id and name ("" when the
\* key is missing), raw score (num = FALSE: missing or not a number).
Competitor(tag, tid, name, isnum, val) ==
    [homeAway |-> tag, team_id |-> tid, team_name |-> name,
     score |-> [num |-> isnum, val |-> val]]

\* The "date" field of an event: absent, an ISO-8601 text with a UTC offset
\* in hours, or a text that is no ISO-8601 timestamp.
DateAbsent == [kind |-> "absent", day |-> 0, hour |-> 0, off |-> 0]
DateGarbage == [kind |-> "garbage", day |-> 0, hour |-> 0, off |-> 0]
\* "2026-02-10T23:00-05:00"
DateIso == [kind |-> "iso", day |-> 10, hour |-> 23, off |-> -5]

\* The status-type name, as its "_"-separated words with IN_PROGRESS kept as
\* one word; present = FALSE when status, type or name is missing.
StatusName(words) == [present |-> TRUE, words |-> words]
StatusMissing == [present |-> FALSE, words |-> <<>>]
STATUS_FINAL == StatusName(<<"STATUS", "FINAL">>)
STATUS_SCHEDULED == StatusName(<<"STATUS", "SCHEDULED">>)
STATUS_IN_PROGRESS == StatusName(<<"STATUS", "IN_PROGRESS">>)
STATUS_FINAL_PENDING_REVIEW == StatusName(<<"STATUS", "FINAL", "PENDING", "REVIEW">>)
STATUS_IN_PROGRESS_FINAL == StatusName(<<"STATUS", "IN_PROGRESS", "FINAL">>)

HomeA == Competitor("home", "t1", "Alpha", TRUE, 2)
AwayB == Competitor("away", "t2", "Beta", TRUE, 1)

\* A well-formed final game: Alpha 2, Beta 1, at Alpha's.
BaseEvent(gid) ==
    [id |-> gid, date |-> DateIso, status |-> STATUS_FINAL, has_comp |-> TRUE,
     neutralSite |-> FALSE, competitors |-> <<HomeA, AwayB>>]

\* Events every gate of the loop accepts: the base event with one part changed.
GoodEvents ==
    {BaseEvent("g1"), BaseEvent("g2")}
    \cup {[BaseEvent("g1") EXCEPT !.status = s] :
            s \in {STATUS_SCHEDULED, STATUS_IN_PROGRESS, StatusMissing,
                   STATUS_FINAL_PENDING_REVIEW, STATUS_IN_PROGRESS_FINAL}}
    \cup {[BaseEvent("g1") EXCEPT !.competitors = c] :
            c \in {<<Competitor("home", "t1", "Alpha", TRUE, 1), Competitor("away", "t2", "Beta", TRUE, 2)>>,
                   <<Competitor("home", "t1", "Alpha", TRUE, 1), Competitor("away", "t2", "Beta", TRUE, 1)>>,
                   <<Competitor("home", "t1", "Alpha", FALSE, 0), AwayB>>,
                   <<Competitor("away", "t3", "Gamma", TRUE, 2), Competitor("home", "t1", "Alpha A", TRUE, 1)>>}}
    \cup {[BaseEvent("g1") EXCEPT !.date = DateAbsent, !.neutralSite = TRUE]}
    \cup {[BaseEvent("g2") EXCEPT !.status = STATUS_SCHEDULED,
                                  !.competitors = <<Competitor("home", "t2", "Beta", TRUE, 1),
                                                    Competitor("away", "t1", "Alpha", TRUE, 1)>>]}

\* Events whose timestamp is no ISO-8601 text.
GarbageDateEvents ==
    {[BaseEvent("g1") EXCEPT !.date = DateGarbage],
     [BaseEvent("g2") EXCEPT !.date = DateGarbage, !.has_comp = FALSE]}

\* Events one of the gates of the loop rejects.
MalformedEvents ==
    {[BaseEvent(" ") EXCEPT !.date = DateGarbage],
     [BaseEvent("g1") EXCEPT !.has_comp = FALSE],
     [BaseEvent("g1") EXCEPT !.competitors = <<HomeA, HomeA>>],
     [BaseEvent("g1") EXCEPT !.competitors = <<AwayB>>],
     [BaseEvent("g1") EXCEPT !.competitors = <<Competitor("home", "", "Alpha", TRUE, 2), AwayB>>],
     [BaseEvent("g1") EXCEPT !.competitors = <<HomeA, Competitor("away", "t2", "", TRUE, 1)>>]}

Events == GoodEvents \cup GarbageDateEvents \cup MalformedEvents

\* ------------------------------------------------- app/ingest.py: parsing
\* str(x).strip(): the texts used here are blank or carry no outer blanks.
strip(text) == IF text \in {"", " "} THEN "" ELSE text

\* _to_utc_dt: None for no text, ValueError for a text fromisoformat rejects,
\* otherwise the instant moved to UTC (the offset is subtracted and the day
\* carried).
to_utc_dt(iso) ==
    IF iso.kind = "absent" THEN [raised |-> FALSE, value |-> None]
    ELSE IF iso.kind = "garbage" THEN [raised |-> TRUE, value |-> None]
    ELSE LET h == iso.hour - iso.off
         IN  [raised |-> FALSE,
              value |-> Some(IF h >= 24 THEN [day |-> iso.day + 1, hour |-> h - 24]
                             ELSE IF h < 0 THEN [day |-> iso.day - 1, hour |-> h + 24]
                             ELSE [day |-> iso.day, hour |-> h])]

\* date().isoformat() of an instant of February 2026.
isoformat(dt) ==
    CASE dt.day = 9 -> "2026-02-09"
      [] dt.day = 10 -> "2026-02-10"
      [] dt.day = 11 -> "2026-02-11"
      [] OTHER -> "2026-02-12"

date_key_of(start_time_utc) ==
    IF start_time_utc # None THEN isoformat(start_time_utc[1]) ELSE "unknown"

\* `word in name` for the words of a status-type name.
Contains(words, word) == \E i \in 1..Len(words) : words[i] = word

\* _status_from_event as it would be with its two tests in the other order.
status_from_event_progress_first(ev) ==
    IF ~ev.status.present THEN "scheduled"
    ELSE IF Contains(ev.status.words, "IN_PROGRESS") THEN "in_progress"
    ELSE IF Contains(ev.status.words, "FINAL") THEN "final"
    ELSE "scheduled"

status_from_event(ev) ==
    IF ~ev.status.present THEN "scheduled"
    ELSE IF Contains(ev.status.words, "FINAL") THEN "final"
    ELSE IF Contains(ev.status.words, "IN_PROGRESS") THEN "in_progress"
    ELSE "scheduled"

safe_int(x) == IF x.num THEN Some(x.val) ELSE None

\* next((c for c in competitors if c.get("homeAway") == tag), None)
FirstTagged(competitors, tag) ==
    LET idx == {i \in 1..Len(competitors) : competitors[i].homeAway = tag}
    IN  IF idx = {} THEN None
        ELSE Some(competitors[CHOOSE i \in idx : \A j \in idx : i <= j])

\* ------------------------------------------------ app/models.py: the store
EmptyStore == [teams |-> {}, games |-> {}, ratings |-> {}]

\* The session when no call is running.
Closed == [teams |-> {}, games |-> {}, ratings |-> {}, pending |-> <<>>]

\* A session opened on the committed store.
Open(store) ==
    [teams |-> store.teams, games |-> store.games, ratings |-> store.ratings,
     pending |-> <<>>]

StoreOf(s) == [teams |-> s.teams, games |-> s.games, ratings |-> s.ratings]

\* The next value of an INTEGER PRIMARY KEY column.
NextId(rows) ==
    IF rows = {} THEN 1
    ELSE (CHOOSE r \in rows : \A q \in rows : q.id <= r.id).id + 1

\* uq_team_provider_id: a row with this identity is already there.
TeamKeyTaken(teams, t) ==
    \E q \in teams : q.provider = t.provider /\ q.provider_team_id = t.provider_team_id

\* uq_game_provider_id: a row with this identity is already there.
GameKeyTaken(games, g) ==
    \E q \in games : q.provider = g.provider /\ q.provider_game_id = g.provider_game_id

\* team_ratings has team_id alone as its primary key.
RatingKeyTaken(ratings, r) == \E q \in ratings : q.team_id = r.team_id

\* INSERT of the pending games, in the order they were added; the first one
\* the unique constraint rejects fails the flush.
RECURSIVE FlushGames(_, _)
FlushGames(games, pend) ==
    IF pend = <<>> THEN [err |-> "", games |-> games]
    ELSE IF GameKeyTaken(games, Head(pend))
         THEN [err |-> "IntegrityError", games |-> games]
         ELSE FlushGames(games \cup {[Head(pend) EXCEPT !.id = NextId(games)]},
                         Tail(pend))

\* Session.flush(): writes the pending games into the transaction.
\* s carries err ("" while nothing was raised).
flush(s) ==
    LET f == FlushGames(s.games, s.pending)
    IN  IF f.err # "" THEN [s EXCEPT !.err = f.err]
        ELSE [s EXCEPT !.games = f.games, !.pending = <<>>]

\* ---------------------------------------------- app/ingest.py: the upserts
\* upsert_team as it would be without the rename of a Team it finds.
upsert_team_keeps_name(s, provider_team_id, name) ==
    LET found == {t \in s.teams : t.provider = provider
                                  /\ t.provider_team_id = provider_team_id}
    IN  IF found # {}
        THEN LET team == CHOOSE t \in found : TRUE
             IN  [s EXCEPT !.ret = team.id]
        ELSE LET id == NextId(s.teams)
                 team == [id |-> id, name |-> name, provider |-> provider,
                          provider_team_id |-> provider_team_id]
             IN  IF TeamKeyTaken(s.teams, team)
                 THEN [s EXCEPT !.err = "IntegrityError"]
                 ELSE flush([s EXCEPT !.teams = @ \cup {team}, !.ret = id])

\* upsert_team: s.ret is the id of the returned Team.
upsert_team(s, provider_team_id, name) ==
    LET found == {t \in s.teams : t.provider = provider
                                  /\ t.provider_team_id = provider_team_id}
    IN  IF found # {}
        THEN LET team == CHOOSE t \in found : TRUE
             IN  [s EXCEPT !.teams = (@ \ {team}) \cup {[team EXCEPT !.name = name]},
                           !.ret = team.id]
        ELSE LET id == NextId(s.teams)
                 team == [id |-> id, name |-> name, provider |-> provider,
                          provider_team_id |-> provider_team_id]
             IN  IF TeamKeyTaken(s.teams, team)
                 THEN [s EXCEPT !.err = "IntegrityError"]
                 ELSE flush([s EXCEPT !.teams = @ \cup {team}, !.ret = id])

\* upsert_game as it would be if the update of an existing game also wrote
\* elo_applied = False.
upsert_game_resets_flag(s, provider_game_id, start_time_utc, date_key, home_team_id, away_team_id, home_score, away_score, status, neutral_site) ==
    LET found == {g \in s.games : g.provider = provider
                                  /\ g.provider_game_id = provider_game_id}
        fresh == [id |-> 0, provider |-> provider,
                  provider_game_id |-> provider_game_id,
                  start_time_utc |-> start_time_utc, date_key |-> date_key,
                  home_team_id |-> home_team_id, away_team_id |-> away_team_id,
                  home_score |-> home_score, away_score |-> away_score,
                  status |-> status, neutral_site |-> neutral_site,
                  elo_applied |-> FALSE]
    IN  IF found = {}
        THEN [s EXCEPT !.pending = Append(@, fresh)]
        ELSE LET game == CHOOSE g \in found : TRUE
             IN  [s EXCEPT !.games = (@ \ {game}) \cup {[fresh EXCEPT !.id = game.id]}]

\* upsert_game as it would be without its lookup: every event adds a Game.
upsert_game_always_adds(s, provider_game_id, start_time_utc, date_key, home_team_id, away_team_id, home_score, away_score, status, neutral_site) ==
    [s EXCEPT !.pending = Append(@,
        [id |-> 0, provider |-> provider, provider_game_id |-> provider_game_id,
         start_time_utc |-> start_time_utc, date_key |-> date_key,
         home_team_id |-> home_team_id, away_team_id |-> away_team_id,
         home_score |-> home_score, away_score |-> away_score,
         status |-> status, neutral_site |-> neutral_site,
         elo_applied |-> FALSE])]

\* upsert_game: the lookup reads the transaction, not the pending list.
upsert_game(s, provider_game_id, start_time_utc, date_key, home_team_id, away_team_id, home_score, away_score, status, neutral_site) ==
    LET found == {g \in s.games : g.provider = provider
                                  /\ g.provider_game_id = provider_game_id}
    IN  IF found = {}
        THEN [s EXCEPT !.pending = Append(@,
                 [id |-> 0, provider |-> provider,
                  provider_game_id |-> provider_game_id,
                  start_time_utc |-> start_time_utc, date_key |-> date_key,
                  home_team_id |-> home_team_id, away_team_id |-> away_team_id,
                  home_score |-> home_score, away_score |-> away_score,
                  status |-> status, neutral_site |-> neutral_site,
                  elo_applied |-> FALSE])]
        ELSE LET game == CHOOSE g \in found : TRUE
             IN  [s EXCEPT !.games = (@ \ {game}) \cup
                    {[game EXCEPT !.start_time_utc = start_time_utc,
                                  !.date_key = date_key,
                                  !.home_team_id = home_team_id,
                                  !.away_team_id = away_team_id,
                                  !.home_score = home_score,
                                  !.away_score = away_score,
                                  !.status = status,
                                  !.neutral_site = neutral_site]}]

\* One pass of the loop of ingest_scoreboard_json over event ev, from session
\* sess.  skipped: a `continue` was taken; err: the exception raised, if any.
ProcessEvent(sess, ev) ==
    LET s0 == [teams |-> sess.teams, games |-> sess.games, ratings |-> sess.ratings,
               pending |-> sess.pending, err |-> "", ret |-> 0, skipped |-> FALSE]
        skip == [s0 EXCEPT !.skipped = TRUE]
        provider_game_id == strip(ev.id)
        parsed == to_utc_dt(ev.date)
        start_time_utc == parsed.value
        date_key == date_key_of(start_time_utc)
        status == status_from_event(ev)
        competitors == IF ev.has_comp THEN ev.competitors ELSE <<>>
        home == FirstTagged(competitors, "home")
        away == FirstTagged(competitors, "away")
    IN  IF provider_game_id = "" THEN skip
        ELSE IF parsed.raised THEN [s0 EXCEPT !.err = "ValueError"]
        ELSE IF ~ev.has_comp THEN skip
        ELSE IF home = None \/ away = None THEN skip
        ELSE IF strip(home[1].team_id) = "" \/ strip(away[1].team_id) = ""
                \/ strip(home[1].team_name) = "" \/ strip(away[1].team_name) = ""
             THEN skip
        ELSE LET s1 == upsert_team(s0, strip(home[1].team_id), strip(home[1].team_name))
                 s2 == upsert_team(s1, strip(away[1].team_id), strip(away[1].team_name))
             IN  IF s1.err # "" THEN s1
                 ELSE IF s2.err # "" THEN s2
                 ELSE upsert_game(s2, provider_game_id, start_time_utc, date_key,
                                  s1.ret, s2.ret, safe_int(home[1].score),
                                  safe_int(away[1].score), status, ev.neutralSite)

\* Session.commit(): flush, then make the transaction the committed store.
Commit(sess) ==
    LET f == FlushGames(sess.games, sess.pending)
    IN  IF f.err # "" THEN [err |-> f.err, store |-> EmptyStore]
        ELSE [err |-> "", store |-> [teams |-> sess.teams, games |-> f.games,
                                     ratings |-> sess.ratings]]

SessionOf(s) ==
    [teams |-> s.teams, games |-> s.games, ratings |-> s.ratings, pending |-> s.pending]

\* ------------------------------------------------------------ app/elo.py
\* 1/(1 + 10^(d/400)) in 1/Scale, at d = -1000, -950, ..., 1000 rating points.
LogisticTable ==
    <<9968, 9958, 9944, 9926, 9901, 9868, 9825, 9768, 9693, 9595, 9468,
      9302, 9091, 8823, 8490, 8083, 7597, 7034, 6401, 5715, 5000, 4285,
      3599, 2966, 2403, 1917, 1510, 1177, 909, 698, 532, 405, 307, 232,
      175, 132, 99, 74, 56, 42, 32>>

\* expected_score: the logistic curve, read off the table with linear
\* interpolation between its points and held constant outside them.
expected_score(r_a, r_b) ==
    LET d == r_b - r_a
        lo == -1000 * Scale
        step == 50 * Scale
        n == Len(LogisticTable)
    IN  IF d <= lo THEN LogisticTable[1]
        ELSE IF d >= -lo THEN LogisticTable[n]
        ELSE LET i == ((d - lo) \div step) + 1
                 rem == (d - lo) % step
             IN  LogisticTable[i]
                 + (((LogisticTable[i + 1] - LogisticTable[i]) * rem) \div step)

\* k_factor as it would be with the thresholds compared by <=.
k_factor_inclusive(games_played) ==
    IF games_played <= 10 THEN (K_BASE * 125) \div 100
    ELSE IF games_played <= 25 THEN K_BASE
    ELSE (K_BASE * 85) \div 100

k_factor(games_played) ==
    IF games_played < 10 THEN (K_BASE * 125) \div 100
    ELSE IF games_played < 25 THEN K_BASE
    ELSE (K_BASE * 85) \div 100

\* get_or_create_rating as it would be if a new rating started at one game.
get_or_create_rating_counts_one(s, team_id, seas) ==
    LET found == {r \in s.ratings : r.team_id = team_id /\ r.season = seas}
        fresh == [team_id |-> team_id, season |-> seas,
                  elo |-> DEFAULT_ELO * Scale, games_played |-> 1]
    IN  IF found # {} THEN [s EXCEPT !.ret = CHOOSE r \in found : TRUE]
        ELSE IF RatingKeyTaken(s.ratings, fresh)
             THEN [s EXCEPT !.err = "IntegrityError"]
             ELSE flush([s EXCEPT !.ratings = @ \cup {fresh}, !.ret = fresh])

\* get_or_create_rating: s.ret is the (team_id, season) row returned.
get_or_create_rating(s, team_id, seas) ==
    LET found == {r \in s.ratings : r.team_id = team_id /\ r.season = seas}
        fresh == [team_id |-> team_id, season |-> seas,
                  elo |-> DEFAULT_ELO * Scale, games_played |-> 0]
    IN  IF found # {} THEN [s EXCEPT !.ret = CHOOSE r \in found : TRUE]
        ELSE IF RatingKeyTaken(s.ratings, fresh)
             THEN [s EXCEPT !.err = "IntegrityError"]
             ELSE flush([s EXCEPT !.ratings = @ \cup {fresh}, !.ret = fresh])

\* The row of `ratings` that object r stands for.
RowOf(ratings, r) ==
    CHOOSE q \in ratings : q.team_id = r.team_id /\ q.season = r.season

SetRow(ratings, r, new) == (ratings \ {RowOf(ratings, r)}) \cup {new}

\* The loop body as it would be without `g.elo_applied = True`.
ApplyOne_no_mark(sess, gid, seas) ==
    LET s0 == [teams |-> sess.teams, games |-> sess.games, ratings |-> sess.ratings,
               pending |-> sess.pending, err |-> "", ret |-> 0, skipped |-> FALSE]
        g == CHOOSE q \in sess.games : q.id = gid
    IN  IF g.home_score = None \/ g.away_score = None
        THEN [s0 EXCEPT !.skipped = TRUE]
        ELSE LET s1 == get_or_create_rating(s0, g.home_team_id, seas)
                 s2 == get_or_create_rating(s1, g.away_team_id, seas)
                 bump == {IF r.season = seas /\ r.team_id \in {g.home_team_id, g.away_team_id}
                          THEN [r EXCEPT !.games_played = @ + 1] ELSE r : r \in s2.ratings}
             IN  IF s1.err # "" THEN s1
                 ELSE IF s2.err # "" THEN s2
                 ELSE [s2 EXCEPT !.ratings = bump]

\* The loop body as it would be if the home advantage were added to the away
\* side's rating.
ApplyOne_bonus_to_away(sess, gid, seas) ==
    LET s0 == [teams |-> sess.teams, games |-> sess.games, ratings |-> sess.ratings,
               pending |-> sess.pending, err |-> "", ret |-> 0, skipped |-> FALSE]
        g == CHOOSE q \in sess.games : q.id = gid
    IN  IF g.home_score = None \/ g.away_score = None
        THEN [s0 EXCEPT !.skipped = TRUE]
        ELSE LET s1 == get_or_create_rating(s0, g.home_team_id, seas)
                 s2 == get_or_create_rating(s1, g.away_team_id, seas)
                 home == s1.ret
                 away == s2.ret
                 s_home == IF g.home_score[1] > g.away_score[1] THEN Scale
                           ELSE IF g.home_score[1] < g.away_score[1] THEN 0
                           ELSE Scale \div 2
                 home_adj == IF g.neutral_site THEN 0 ELSE HOME_ADVANTAGE_ELO * Scale
                 e_home == expected_score(home.elo, away.elo + home_adj)
                 e_away == Scale - e_home
                 k_h == k_factor(home.games_played)
                 k_a == k_factor(away.games_played)
                 \* home.elo = ...
                 r1 == SetRow(s2.ratings, home,
                              [home EXCEPT !.elo = home.elo + k_h * (s_home - e_home)])
                 \* away.elo = ... (away is read after home was written)
                 away1 == RowOf(r1, away)
                 r2 == SetRow(r1, away,
                              [away1 EXCEPT !.elo = away1.elo + k_a * ((Scale - s_home) - e_away)])
                 \* home.games_played += 1; away.games_played += 1
                 home2 == RowOf(r2, home)
                 r3 == SetRow(r2, home, [home2 EXCEPT !.games_played = @ + 1])
                 away3 == RowOf(r3, away)
                 r4 == SetRow(r3, away, [away3 EXCEPT !.games_played = @ + 1])
             IN  IF s1.err # "" THEN s1
                 ELSE IF s2.err # "" THEN s2
                 ELSE [s2 EXCEPT !.ratings = r4,
                                 !.games = (@ \ {g}) \cup {[g EXCEPT !.elo_applied = TRUE]}]

\* The loop body as it would be if a home side that did not win had lost.
ApplyOne_tie_counts_as_loss(sess, gid, seas) ==
    LET s0 == [teams |-> sess.teams, games |-> sess.games, ratings |-> sess.ratings,
               pending |-> sess.pending, err |-> "", ret |-> 0, skipped |-> FALSE]
        g == CHOOSE q \in sess.games : q.id = gid
    IN  IF g.home_score = None \/ g.away_score = None
        THEN [s0 EXCEPT !.skipped = TRUE]
        ELSE LET s1 == get_or_create_rating(s0, g.home_team_id, seas)
                 s2 == get_or_create_rating(s1, g.away_team_id, seas)
                 home == s1.ret
                 away == s2.ret
                 s_home == IF g.home_score[1] > g.away_score[1] THEN Scale
                           ELSE 0
                 home_adj == IF g.neutral_site THEN 0 ELSE HOME_ADVANTAGE_ELO * Scale
                 e_home == expected_score(home.elo + home_adj, away.elo)
                 e_away == Scale - e_home
                 k_h == k_factor(home.games_played)
                 k_a == k_factor(away.games_played)
                 \* home.elo = ...
                 r1 == SetRow(s2.ratings, home,
                              [home EXCEPT !.elo = home.elo + k_h * (s_home - e_home)])
                 \* away.elo = ... (away is read after home was written)
                 away1 == RowOf(r1, away)
                 r2 == SetRow(r1, away,
                              [away1 EXCEPT !.elo = away1.elo + k_a * ((Scale - s_home) - e_away)])
                 \* home.games_played += 1; away.games_played += 1
                 home2 == RowOf(r2, home)
                 r3 == SetRow(r2, home, [home2 EXCEPT !.games_played = @ + 1])
                 away3 == RowOf(r3, away)
                 r4 == SetRow(r3, away, [away3 EXCEPT !.games_played = @ + 1])
             IN  IF s1.err # "" THEN s1
                 ELSE IF s2.err # "" THEN s2
                 ELSE [s2 EXCEPT !.ratings = r4,
                                 !.games = (@ \ {g}) \cup {[g EXCEPT !.elo_applied = TRUE]}]

\* The loop body as it would be if the away side were credited with the home
\* side's result.
ApplyOne_same_result_both_sides(sess, gid, seas) ==
    LET s0 == [teams |-> sess.teams, games |-> sess.games, ratings |-> sess.ratings,
               pending |-> sess.pending, err |-> "", ret |-> 0, skipped |-> FALSE]
        g == CHOOSE q \in sess.games : q.id = gid
    IN  IF g.home_score = None \/ g.away_score = None
        THEN [s0 EXCEPT !.skipped = TRUE]
        ELSE LET s1 == get_or_create_rating(s0, g.home_team_id, seas)
                 s2 == get_or_create_rating(s1, g.away_team_id, seas)
                 home == s1.ret
                 away == s2.ret
                 s_home == IF g.home_score[1] > g.away_score[1] THEN Scale
                           ELSE IF g.home_score[1] < g.away_score[1] THEN 0
                           ELSE Scale \div 2
                 home_adj == IF g.neutral_site THEN 0 ELSE HOME_ADVANTAGE_ELO * Scale
                 e_home == expected_score(home.elo + home_adj, away.elo)
                 e_away == Scale - e_home
                 k_h == k_factor(home.games_played)
                 k_a == k_factor(away.games_played)
                 \* home.elo = ...
                 r1 == SetRow(s2.ratings, home,
                              [home EXCEPT !.elo = home.elo + k_h * (s_home - e_home)])
                 \* away.elo = ... (away is read after home was written)
                 away1 == RowOf(r1, away)
                 r2 == SetRow(r1, away,
                              [away1 EXCEPT !.elo = away1.elo + k_a * (s_home - e_away)])
                 \* home.games_played += 1; away.games_played += 1
                 home2 == RowOf(r2, home)
                 r3 == SetRow(r2, home, [home2 EXCEPT !.games_played = @ + 1])
                 away3 == RowOf(r3, away)
                 r4 == SetRow(r3, away, [away3 EXCEPT !.games_played = @ + 1])
             IN  IF s1.err # "" THEN s1
                 ELSE IF s2.err # "" THEN s2
                 ELSE [s2 EXCEPT !.ratings = r4,
                                 !.games = (@ \ {g}) \cup {[g EXCEPT !.elo_applied = TRUE]}]

\* The loop body as it would be if a game skipped for a missing score were
\* marked as rated.
ApplyOne_marks_skipped(sess, gid, seas) ==
    LET s0 == [teams |-> sess.teams, games |-> sess.games, ratings |-> sess.ratings,
               pending |-> sess.pending, err |-> "", ret |-> 0, skipped |-> FALSE]
        g == CHOOSE q \in sess.games : q.id = gid
    IN  IF g.home_score = None \/ g.away_score = None
        THEN [s0 EXCEPT !.skipped = TRUE,
                        !.games = (@ \ {g}) \cup {[g EXCEPT !.elo_applied = TRUE]}]
        ELSE LET s1 == get_or_create_rating(s0, g.home_team_id, seas)
                 s2 == get_or_create_rating(s1, g.away_team_id, seas)
                 home == s1.ret
                 away == s2.ret
                 s_home == IF g.home_score[1] > g.away_score[1] THEN Scale
                           ELSE IF g.home_score[1] < g.away_score[1] THEN 0
                           ELSE Scale \div 2
                 home_adj == IF g.neutral_site THEN 0 ELSE HOME_ADVANTAGE_ELO * Scale
                 e_home == expected_score(home.elo + home_adj, away.elo)
                 e_away == Scale - e_home
                 k_h == k_factor(home.games_played)
                 k_a == k_factor(away.games_played)
                 \* home.elo = ...
                 r1 == SetRow(s2.ratings, home,
                              [home EXCEPT !.elo = home.elo + k_h * (s_home - e_home)])
                 \* away.elo = ... (away is read after home was written)
                 away1 == RowOf(r1, away)
                 r2 == SetRow(r1, away,
                              [away1 EXCEPT !.elo = away1.elo + k_a * ((Scale - s_home) - e_away)])
                 \* home.games_played += 1; away.games_played += 1
                 home2 == RowOf(r2, home)
                 r3 == SetRow(r2, home, [home2 EXCEPT !.games_played = @ + 1])
                 away3 == RowOf(r3, away)
                 r4 == SetRow(r3, away, [away3 EXCEPT !.games_played = @ + 1])
             IN  IF s1.err # "" THEN s1
                 ELSE IF s2.err # "" THEN s2
                 ELSE [s2 EXCEPT !.ratings = r4,
                                 !.games = (@ \ {g}) \cup {[g EXCEPT !.elo_applied = TRUE]}]

\* One pass of the loop of apply_elo_to_final_games over the game with
\* surrogate id gid.  skipped: the `continue` was taken.
ApplyOne(sess, gid, seas) ==
    LET s0 == [teams |-> sess.teams, games |-> sess.games, ratings |-> sess.ratings,
               pending |-> sess.pending, err |-> "", ret |-> 0, skipped |-> FALSE]
        g == CHOOSE q \in sess.games : q.id = gid
    IN  IF g.home_score = None \/ g.away_score = None
        THEN [s0 EXCEPT !.skipped = TRUE]
        ELSE LET s1 == get_or_create_rating(s0, g.home_team_id, seas)
                 s2 == get_or_create_rating(s1, g.away_team_id, seas)
                 home == s1.ret
                 away == s2.ret
                 s_home == IF g.home_score[1] > g.away_score[1] THEN Scale
                           ELSE IF g.home_score[1] < g.away_score[1] THEN 0
                           ELSE Scale \div 2
                 home_adj == IF g.neutral_site THEN 0 ELSE HOME_ADVANTAGE_ELO * Scale
                 e_home == expected_score(home.elo + home_adj, away.elo)
                 e_away == Scale - e_home
                 k_h == k_factor(home.games_played)
                 k_a == k_factor(away.games_played)
                 \* home.elo = ...
                 r1 == SetRow(s2.ratings, home,
                              [home EXCEPT !.elo = home.elo + k_h * (s_home - e_home)])
                 \* away.elo = ... (away is read after home was written)
                 away1 == RowOf(r1, away)
                 r2 == SetRow(r1, away,
                              [away1 EXCEPT !.elo = away1.elo + k_a * ((Scale - s_home) - e_away)])
                 \* home.games_played += 1; away.games_played += 1
                 home2 == RowOf(r2, home)
                 r3 == SetRow(r2, home, [home2 EXCEPT !.games_played = @ + 1])
                 away3 == RowOf(r3, away)
                 r4 == SetRow(r3, away, [away3 EXCEPT !.games_played = @ + 1])
             IN  IF s1.err # "" THEN s1
                 ELSE IF s2.err # "" THEN s2
                 ELSE [s2 EXCEPT !.ratings = r4,
                                 !.games = (@ \ {g}) \cup {[g EXCEPT !.elo_applied = TRUE]}]

\* The scan as it would be without its status filter.
Scan_any_status(store) == {g.id : g \in {q \in store.games : ~q.elo_applied}}

\* The scan of apply_elo_to_final_games: final games not yet rated.
Scan(store) == {g.id : g \in {q \in store.games : q.status = "final" /\ ~q.elo_applied}}

\* ------------------------------------------------------------ the calls
NoStats == [teams_touched |-> 0, games_upserted |-> 0,
            final_games_found |-> 0, elo_games_applied |-> 0]

\* The outcome of a finished call: err is the exception it raised ("" for a
\* return), ev the event it was raised on, ret the counts returned, lost
\* whether the session held changes that were never committed.
Outcome(op, err, ev, ret, lost) ==
    [op |-> op, err |-> err, ev |-> ev, ret |-> ret, lost |-> lost]

\* The session holds rows or changes the committed store lacks.
Dirty(store, sess) == StoreOf(sess) # store \/ sess.pending # <<>>

\* The store a call that raised would leave if what its session had flushed
\* were kept (a connection in autocommit mode).
CloseAfterRaise_keeps_flushed(store, sess) == StoreOf(sess)

\* The committed store after the caller's `finally: db.close()` ends a call
\* that raised: close() rolls the open transaction back.
CloseAfterRaise(store, sess) == store

\* No call has finished since the running one was entered.
Running == Outcome("none", "", None, None, FALSE)

Init ==
    /\ db = EmptyStore
    /\ tx = Closed
    /\ pc = "idle"
    /\ payload = <<>>
    /\ stats = NoStats
    /\ todo = {}
    /\ season = ""
    /\ last = Running
    /\ nEvents = 0
    /\ nApply = 0

\* ingest_scoreboard_json is entered with a fresh session.
IngestBegin ==
    /\ pc = "idle"
    /\ pc' = "ingest"
    /\ tx' = Open(db)
    /\ payload' = <<>>
    /\ stats' = NoStats
    /\ last' = Running
    /\ UNCHANGED <<db, todo, season, nEvents, nApply>>

\* The loop body returns or continues: on to the next event.
IngestEvent(ev) ==
    /\ pc = "ingest"
    /\ Len(payload) < MaxEvents
    /\ nEvents < MaxTotalEvents
    /\ LET r == ProcessEvent(tx, ev)
       IN  /\ r.err = ""
           /\ tx' = SessionOf(r)
           /\ stats' = IF r.skipped THEN stats
                       ELSE [stats EXCEPT !.teams_touched = @ + 2,
                                          !.games_upserted = @ + 1]
    /\ payload' = Append(payload, ev)
    /\ nEvents' = nEvents + 1
    /\ UNCHANGED <<db, pc, todo, season, last, nApply>>

\* The loop body raises: the caller's finally closes the session, which
\* rolls the transaction back.
IngestRaise(ev) ==
    /\ pc = "ingest"
    /\ Len(payload) < MaxEvents
    /\ nEvents < MaxTotalEvents
    /\ LET r == ProcessEvent(tx, ev)
       IN  /\ r.err # ""
           /\ last' = Outcome("ingest", r.err, Some(ev), None, Dirty(db, tx))
    /\ db' = CloseAfterRaise(db, tx)
    /\ pc' = "idle"
    /\ tx' = Closed
    /\ payload' = <<>>
    /\ stats' = NoStats
    /\ nEvents' = nEvents + 1
    /\ UNCHANGED <<todo, season, nApply>>

\* The payload is exhausted: db.commit() and the counts are returned.
IngestCommit ==
    /\ pc = "ingest"
    /\ LET c == Commit(tx)
       IN  /\ c.err = ""
           /\ db' = c.store
    /\ last' = Outcome("ingest", "", None,
                       Some([events_seen |-> Len(payload),
                             teams_touched |-> stats.teams_touched,
                             games_upserted |-> stats.games_upserted]), FALSE)
    /\ pc' = "idle"
    /\ tx' = Closed
    /\ payload' = <<>>
    /\ stats' = NoStats
    /\ UNCHANGED <<todo, season, nEvents, nApply>>

\* db.commit() raises: nothing is committed and the session is closed.
IngestCommitRaise ==
    /\ pc = "ingest"
    /\ LET c == Commit(tx)
       IN  /\ c.err # ""
           /\ last' = Outcome("ingest", c.err, None, None, Dirty(db, tx))
    /\ db' = CloseAfterRaise(db, tx)
    /\ pc' = "idle"
    /\ tx' = Closed
    /\ payload' = <<>>
    /\ stats' = NoStats
    /\ UNCHANGED <<todo, season, nEvents, nApply>>

\* apply_elo_to_final_games(db, season) is entered and scans the games.
ApplyBegin(seas) ==
    /\ pc = "idle"
    /\ nApply < MaxApplyCalls
    /\ pc' = "apply"
    /\ season' = seas
    /\ tx' = Open(db)
    /\ todo' = Scan(db)
    /\ stats' = [NoStats EXCEPT !.final_games_found = Cardinality(Scan(db))]
    /\ nApply' = nApply + 1
    /\ last' = Running
    /\ UNCHANGED <<db, payload, nEvents>>

\* The loop body over one scanned game; the scan carries no ORDER BY.
ApplyGame(gid) ==
    /\ pc = "apply"
    /\ gid \in todo
    /\ LET r == ApplyOne(tx, gid, season)
       IN  /\ r.err = ""
           /\ tx' = SessionOf(r)
           /\ stats' = IF r.skipped THEN stats
                       ELSE [stats EXCEPT !.elo_games_applied = @ + 1]
    /\ todo' = todo \ {gid}
    /\ UNCHANGED <<db, pc, payload, season, last, nEvents, nApply>>

\* The loop body raises: the session is closed, the transaction rolled back.
ApplyRaise(gid) ==
    /\ pc = "apply"
    /\ gid \in todo
    /\ LET r == ApplyOne(tx, gid, season)
       IN  /\ r.err # ""
           /\ last' = Outcome("apply", r.err, None, None, Dirty(db, tx))
    /\ db' = CloseAfterRaise(db, tx)
    /\ pc' = "idle"
    /\ tx' = Closed
    /\ todo' = {}
    /\ stats' = NoStats
    /\ season' = ""
    /\ UNCHANGED <<payload, nEvents, nApply>>

\* The scan is exhausted: db.commit() and the counts are returned.
ApplyCommit ==
    /\ pc = "apply"
    /\ todo = {}
    /\ LET c == Commit(tx)
       IN  /\ c.err = ""
           /\ db' = c.store
    /\ last' = Outcome("apply", "", None,
                       Some([final_games_found |-> stats.final_games_found,
                             elo_games_applied |-> stats.elo_games_applied]), FALSE)
    /\ pc' = "idle"
    /\ tx' = Closed
    /\ stats' = NoStats
    /\ season' = ""
    /\ UNCHANGED <<payload, todo, nEvents, nApply>>

Next ==
    \/ IngestBegin
    \/ \E ev \in Events : IngestEvent(ev)
    \/ \E ev \in Events : IngestRaise(ev)
    \/ IngestCommit
    \/ IngestCommitRaise
    \/ \E seas \in Seasons : ApplyBegin(seas)
    \/ \E gid \in todo : ApplyGame(gid)
    \/ \E gid \in todo : ApplyRaise(gid)
    \/ ApplyCommit

Spec == Init /\ [][Next]_vars

\* ---------------------------------------------------- whole calls, folded
\* The loop of ingest_scoreboard_json over the events evs, from session sess,
\* up to the first event that raises.
RECURSIVE RunEvents(_, _)
RunEvents(sess, evs) ==
    IF evs = <<>>
    THEN [teams |-> sess.teams, games |-> sess.games, ratings |-> sess.ratings,
          pending |-> sess.pending, err |-> "", ret |-> 0, skipped |-> FALSE]
    ELSE LET r == ProcessEvent(sess, Head(evs))
         IN  IF r.err # "" THEN r ELSE RunEvents(SessionOf(r), Tail(evs))

\* ingest_scoreboard_json(db, payload) run to its end on a fresh session: the
\* exception raised ("" for none) and the committed store it leaves.
RunIngest(store, evs) ==
    LET r == RunEvents(Open(store), evs)
        c == Commit(SessionOf(r))
    IN  IF r.err # "" THEN [err |-> r.err, store |-> CloseAfterRaise(store, SessionOf(r))]
        ELSE IF c.err # "" THEN [err |-> c.err, store |-> CloseAfterRaise(store, SessionOf(r))]
        ELSE [err |-> "", store |-> c.store]

\* ------------------------------------------------- app/main.py: predict
\* _default_season()
default_season == "2025-26"

\* `season or _default_season()`: "" stands for an absent or empty parameter.
SeasonOr(seas) == IF seas = "" THEN default_season ELSE seas

\* The committed store after get_db's `finally: db.close()` ends a request
\* whose handler never committed: close() rolls the open transaction back.
get_db_close(store, sess) == store

\* The request of a predict call.
PredictArgs(home_team_id, away_team_id, neutral, seas) ==
    [home_team_id |-> home_team_id, away_team_id |-> away_team_id,
     neutral |-> neutral, season |-> seas]

\* predict: the exception raised ("" for none), the session as the handler
\* leaves it, and the response body.  neutral is the integer query parameter.
predict(store, home_team_id, away_team_id, neutral, seas) ==
    LET s0 == [teams |-> store.teams, games |-> store.games,
               ratings |-> store.ratings, pending |-> <<>>, err |-> "",
               ret |-> 0, skipped |-> FALSE]
        s1 == get_or_create_rating(s0, home_team_id, SeasonOr(seas))
        s2 == get_or_create_rating(s1, away_team_id, SeasonOr(seas))
        home == s1.ret
        away == s2.ret
        home_adj == IF neutral # 0 THEN 0 ELSE HOME_ADVANTAGE_ELO * Scale
        p_home == expected_score(home.elo + home_adj, away.elo)
    IN  IF s1.err # "" THEN [err |-> s1.err, sess |-> SessionOf(s1), body |-> None]
        ELSE IF s2.err # "" THEN [err |-> s2.err, sess |-> SessionOf(s2), body |-> None]
        ELSE [err |-> "", sess |-> SessionOf(s2),
              body |-> Some([season |-> SeasonOr(seas),
                             home_team_id |-> home_team_id,
                             away_team_id |-> away_team_id,
                             neutral |-> neutral # 0,
                             home |-> [elo |-> home.elo,
                                       games_played |-> home.games_played],
                             away |-> [elo |-> away.elo,
                                       games_played |-> away.games_played],
                             home_win_prob |-> p_home,
                             away_win_prob |-> Scale - p_home,
                             elo_gap |-> (home.elo + home_adj) - away.elo,
                             home_advantage_elo |->
                                 IF neutral # 0 THEN 0
                                 ELSE HOME_ADVANTAGE_ELO * Scale])]

\* GET /predict: one request, served on its own session; last.ev is the
\* request, last.ret the response body.
Predict(home_team_id, away_team_id, neutral, seas) ==
    /\ pc = "idle"
    /\ LET r == predict(db, home_team_id, away_team_id, neutral, seas)
       IN  /\ last' = Outcome("predict", r.err,
                              Some(PredictArgs(home_team_id, away_team_id, neutral, seas)),
                              r.body, Dirty(db, r.sess))
           /\ db' = get_db_close(db, r.sess)
    /\ UNCHANGED <<tx, pc, payload, stats, todo, season, nEvents, nApply>>

\* request parameters of predict; with "" the season parameter is absent
PredictTeamIds == {1, 2}
PredictNeutral == {0, 1}
PredictSeasons == {"", "2026-27"}

\* The pipeline together with the prediction query.
NextAll ==
    \/ Next
    \/ \E h \in PredictTeamIds : \E a \in PredictTeamIds \ {h} :
       \E n \in PredictNeutral, seas \in PredictSeasons : Predict(h, a, n, seas)

SpecAll == Init /\ [][NextAll]_vars

\* --------------------------------------------- the engine in mid-season
\* games_played counts around the two K-factor thresholds
KGames == {0, 9, 10, 24, 25}

\* ratings (in rating points) a team can hold after nine or more games
PriorElos == {1300, 1500, 1565}

TeamRow(id, provider_team_id, name) ==
    [id |-> id, name |-> name, provider |-> provider,
     provider_team_id |-> provider_team_id]

GameRow(id, provider_game_id, home_team_id, away_team_id, home_score, away_score, neutral_site, elo_applied) ==
    [id |-> id, provider |-> provider, provider_game_id |-> provider_game_id,
     start_time_utc |-> to_utc_dt(DateIso).value,
     date_key |-> date_key_of(to_utc_dt(DateIso).value),
     home_team_id |-> home_team_id, away_team_id |-> away_team_id,
     home_score |-> home_score, away_score |-> away_score,
     status |-> "final", neutral_site |-> neutral_site,
     elo_applied |-> elo_applied]

RatingRow(team_id, seas, elo, games_played) ==
    [team_id |-> team_id, season |-> seas, elo |-> elo * Scale,
     games_played |-> games_played]

\* The games already rated when team 1 has played n1 games and team 2 has
\* played n2, all of them at home against team 3.
History(n1, n2) ==
    {GameRow(i, "h" \o ToString(i), IF i <= n1 THEN 1 ELSE 2, 3, Some(2), Some(1), FALSE, TRUE) :
        i \in 1..(n1 + n2)}

\* The committed store of season 2025-26 after those games, with one more
\* final game between team 1 (home) and team 2 ingested and not yet rated.
\* A team that has played no game has no TeamRating.
MidSeason(n1, e1, n2, e2, home_score, away_score, neutral_site) ==
    [teams |-> {TeamRow(1, "t1", "Alpha"), TeamRow(2, "t2", "Beta"),
                TeamRow(3, "t3", "Gamma")},
     games |-> History(n1, n2)
               \cup {GameRow(n1 + n2 + 1, "g1", 1, 2, home_score, away_score,
                             neutral_site, FALSE)},
     ratings |-> (IF n1 > 0 THEN {RatingRow(1, default_season, e1, n1)} ELSE {})
                 \cup (IF n2 > 0 THEN {RatingRow(2, default_season, e2, n2)} ELSE {})
                 \cup (IF n1 + n2 > 0
                       THEN {RatingRow(3, default_season, DEFAULT_ELO, n1 + n2)}
                       ELSE {})]

InitEngine ==
    /\ \E n1 \in KGames, n2 \in KGames, e1 \in PriorElos, e2 \in PriorElos :
       \E home_score \in {None, Some(1), Some(2)}, away_score \in {Some(1), Some(2)} :
       \E neutral_site \in BOOLEAN :
          /\ n1 = 0 => e1 = DEFAULT_ELO
          /\ n2 = 0 => e2 = DEFAULT_ELO
          /\ db = MidSeason(n1, e1, n2, e2, home_score, away_score, neutral_site)
    /\ tx = Closed
    /\ pc = "idle"
    /\ payload = <<>>
    /\ stats = NoStats
    /\ todo = {}
    /\ season = ""
    /\ last = Running
    /\ nEvents = 0
    /\ nApply = 0

\* The rating engine alone.
NextEngine ==
    \/ \E seas \in Seasons : ApplyBegin(seas)
    \/ \E gid \in todo : ApplyGame(gid)
    \/ \E gid \in todo : ApplyRaise(gid)
    \/ ApplyCommit

SpecEngine == InitEngine /\ [][NextEngine]_vars

\* ------------------------------------------------ concurrent rating runs
\* Two calls of apply_elo_to_final_games at once, each on its own session
\* and connection (a request thread of /admin/recalc_elo, the background
\* task of /admin/update).  In this specification tx, pc, todo, stats,
\* season and last hold one value per call.
\*
\* A session holds the objects it has loaded; a SELECT returns the committed
\* row unless the session already holds the object.  The connection opens
\* its transaction at the first INSERT or UPDATE it sends and keeps the
\* database's write lock until the call commits or is closed; rows written
\* under the lock are invisible to the other connection until the commit.
Calls == {1, 2}

\* The ratings a session would read now.
ViewRatings(store, sess) ==
    sess.ratings \cup {r \in store.ratings : ~RatingKeyTaken(sess.ratings, r)}

\* The session of call w as the loop body sees it.
ViewOf(store, sess) ==
    [teams |-> sess.teams, games |-> sess.games,
     ratings |-> ViewRatings(store, sess), pending |-> sess.pending]

\* A session with nothing loaded and nothing written.
Fresh == [teams |-> {}, games |-> {}, ratings |-> {}, pending |-> <<>>,
          wrote |-> FALSE]

\* Another call holds the write lock.
LockedOut(w) == \E v \in Calls \ {w} : pc[v] = "apply" /\ tx[v].wrote

\* The loop body over game gid would INSERT a TeamRating.
Inserts(store, sess, gid, seas) ==
    LET r == ApplyOne(ViewOf(store, sess), gid, seas)
    IN  r.err = "" /\ \E q \in r.ratings : ~RatingKeyTaken(ViewRatings(store, sess), q)

\* The session has changed an object it holds.
Changed(sess) == sess.ratings # {} \/ \E g \in sess.games : g.elo_applied

\* The store after the session's commit: its new rows, and its UPDATEs of
\* the rows whose objects it changed, by primary key.
CommitOver(store, sess) ==
    [teams |-> store.teams,
     games |-> {IF \E q \in sess.games : q.id = g.id /\ q.elo_applied
                THEN [g EXCEPT !.elo_applied = TRUE] ELSE g : g \in store.games},
     ratings |-> {r \in store.ratings : ~RatingKeyTaken(sess.ratings, r)}
                 \cup sess.ratings]

InitConcurrent ==
    /\ \E n1 \in {0, 9}, n2 \in {0, 9} :
       \E home_score \in {None, Some(1), Some(2)}, neutral_site \in BOOLEAN :
          db = MidSeason(n1, DEFAULT_ELO, n2, DEFAULT_ELO, home_score, Some(1),
                         neutral_site)
    /\ tx = [w \in Calls |-> Fresh]
    /\ pc = [w \in Calls |-> "idle"]
    /\ payload = <<>>
    /\ stats = [w \in Calls |-> NoStats]
    /\ todo = [w \in Calls |-> {}]
    /\ season = [w \in Calls |-> ""]
    /\ last = [w \in Calls |-> Running]
    /\ nEvents = 0
    /\ nApply = 0

\* Call w is entered and scans the games.
ConcurrentBegin(w) ==
    /\ pc[w] = "idle"
    /\ nApply < MaxApplyCalls
    /\ pc' = [pc EXCEPT ![w] = "apply"]
    /\ season' = [season EXCEPT ![w] = default_season]
    /\ tx' = [tx EXCEPT ![w] = [Fresh EXCEPT !.games = {g \in db.games : g.id \in Scan(db)}]]
    /\ todo' = [todo EXCEPT ![w] = Scan(db)]
    /\ stats' = [stats EXCEPT ![w] = [NoStats EXCEPT !.final_games_found = Cardinality(Scan(db))]]
    /\ last' = [last EXCEPT ![w] = Running]
    /\ nApply' = nApply + 1
    /\ UNCHANGED <<db, payload, nEvents>>

\* The loop body of call w over one scanned game; an INSERT waits for the
\* write lock.
ConcurrentGame(w, gid) ==
    /\ pc[w] = "apply"
    /\ gid \in todo[w]
    /\ Inserts(db, tx[w], gid, season[w]) => ~LockedOut(w)
    /\ LET r == ApplyOne(ViewOf(db, tx[w]), gid, season[w])
           g == CHOOSE q \in tx[w].games : q.id = gid
       IN  /\ r.err = ""
           /\ tx' = [tx EXCEPT ![w] =
                 IF r.skipped THEN @
                 ELSE [@ EXCEPT
                         !.games = r.games,
                         !.ratings = {q \in r.ratings :
                                         \/ q.team_id \in {g.home_team_id, g.away_team_id}
                                         \/ RatingKeyTaken(tx[w].ratings, q)},
                         !.wrote = @ \/ Inserts(db, tx[w], gid, season[w])]]
           /\ stats' = [stats EXCEPT ![w] =
                 IF r.skipped THEN @ ELSE [@ EXCEPT !.elo_games_applied = @ + 1]]
    /\ todo' = [todo EXCEPT ![w] = @ \ {gid}]
    /\ UNCHANGED <<db, pc, payload, season, last, nEvents, nApply>>

\* Call w needs the write lock another call holds, for an INSERT of its loop
\* or for its commit, and gives up waiting: "database is locked" is raised
\* and the session closed.
ConcurrentLockedOut(w) ==
    /\ pc[w] = "apply"
    /\ LockedOut(w)
    /\ \/ \E gid \in todo[w] : Inserts(db, tx[w], gid, season[w])
       \/ todo[w] = {} /\ Changed(tx[w])
    /\ last' = [last EXCEPT ![w] = Outcome("apply", "OperationalError", None, None, Changed(tx[w]))]
    /\ pc' = [pc EXCEPT ![w] = "idle"]
    /\ tx' = [tx EXCEPT ![w] = Fresh]
    /\ todo' = [todo EXCEPT ![w] = {}]
    /\ stats' = [stats EXCEPT ![w] = NoStats]
    /\ season' = [season EXCEPT ![w] = ""]
    /\ UNCHANGED <<db, payload, nEvents, nApply>>

\* The scan of call w is exhausted: db.commit() and the counts are returned.
ConcurrentCommit(w) ==
    /\ pc[w] = "apply"
    /\ todo[w] = {}
    /\ Changed(tx[w]) => ~LockedOut(w)
    /\ db' = CommitOver(db, tx[w])
    /\ last' = [last EXCEPT ![w] =
          Outcome("apply", "", None,
                  Some([final_games_found |-> stats[w].final_games_found,
                        elo_games_applied |-> stats[w].elo_games_applied]), FALSE)]
    /\ pc' = [pc EXCEPT ![w] = "idle"]
    /\ tx' = [tx EXCEPT ![w] = Fresh]
    /\ stats' = [stats EXCEPT ![w] = NoStats]
    /\ season' = [season EXCEPT ![w] = ""]
    /\ UNCHANGED <<payload, todo, nEvents, nApply>>

NextConcurrent ==
    \E w \in Calls :
       \/ ConcurrentBegin(w)
       \/ \E gid \in todo[w] : ConcurrentGame(w, gid)
       \/ ConcurrentLockedOut(w)
       \/ ConcurrentCommit(w)

SpecConcurrent == InitConcurrent /\ [][NextConcurrent]_vars

\* ------------------------------------------------------- derived notions
\* The game row of a store with surrogate id `id`, as a set (empty if none).
GameById(store, id) == {g \in store.games : g.id = id}

\* Final, unrated, both scores present.
Ratable(store) ==
    {g \in store.games : g.status = "final" /\ ~g.elo_applied
                         /\ g.home_score # None /\ g.away_score # None}

\* games_played of the (team_id, season) rating, 0 when there is none.
GamesPlayed(store, team_id, seas) ==
    LET rs == {r \in store.ratings : r.team_id = team_id /\ r.season = seas}
    IN  IF rs = {} THEN 0 ELSE (CHOOSE r \in rs : TRUE).games_played

\* A step that ends a call with a return / with an exception.
Returns(op) == pc = op /\ pc' = "idle" /\ last'.err = ""
Raises(op) == pc = op /\ pc' = "idle" /\ last'.err # ""

\* ------------------------------------------------------------------ C1
\* C1: a game's elo_applied flag, once true in the committed store, is true
\* in every later committed store: no ingestion (whatever it changes of the
\* game) and no rating run clears it, and the game row is never removed.
C1_RatingAppliedNeverCleared ==
    [][\A g \in db.games :
          g.elo_applied =>
             \E h \in db'.games : /\ h.id = g.id
                                  /\ h.provider_game_id = g.provider_game_id
                                  /\ h.elo_applied]_vars

\* A rated game was ingested again as scheduled, and a later rating run has
\* returned: the game is still rated.
C1_Witness ==
    /\ last.op = "apply" /\ last.err = ""
    /\ nApply = 2
    /\ \E g \in db.games : g.elo_applied /\ g.status = "scheduled"

\* ------------------------------------------------------------------ C2
\* C2: when an ingest call returns, ingesting the same payload once more on
\* the store it committed returns too and commits exactly that store: the
\* same Team and Game rows with the same field values, elo_applied included.
\* When the call raises, the store is as before, and so it is after a
\* second attempt.
C2_IngestIdempotent ==
    [][/\ Returns("ingest") => RunIngest(db', payload) = [err |-> "", store |-> db']
       /\ (Raises("ingest") /\ last'.ev # None) =>
             RunIngest(db', Append(payload, last'.ev[1])).store = db]_vars

\* A call is about to commit a two-event payload that changes stored rows
\* and names a game that is already rated.
C2_Witness ==
    /\ pc = "ingest"
    /\ Len(payload) = 2
    /\ Commit(tx).err = ""
    /\ Commit(tx).store # db
    /\ \E g \in db.games : /\ g.elo_applied
                           /\ \E i \in 1..2 : payload[i].id = g.provider_game_id

\* ------------------------------------------------------------------ C3
\* C3: when a rating run returns, every game that was ratable in the store
\* it started from is rated, the count returned is their number, every
\* (team, season) games_played has grown by one per ratable game the team
\* played in, and nothing ratable is left, so that the next run over the
\* same store applies nothing; a run started with nothing ratable returns 0
\* applied and leaves every rating as it was.
C3_ApplyExhaustiveIdempotent ==
    [][Returns("apply") =>
          /\ \A g \in Ratable(db) : \E h \in GameById(db', g.id) : h.elo_applied
          /\ last'.ret[1].elo_games_applied = Cardinality(Ratable(db))
          /\ \A t \in db'.teams :
                GamesPlayed(db', t.id, season) =
                   GamesPlayed(db, t.id, season)
                   + Cardinality({g \in Ratable(db) : g.home_team_id = t.id})
                   + Cardinality({g \in Ratable(db) : g.away_team_id = t.id})
          /\ Ratable(db') = {}
          /\ Ratable(db) = {} => db'.ratings = db.ratings]_vars

\* Two games were rated in one run (a team has two games played) and the run
\* that immediately followed has returned 0 applied.
C3_Witness ==
    /\ last.op = "apply" /\ last.err = ""
    /\ last.ret[1].elo_games_applied = 0
    /\ nApply = 2
    /\ \E r \in db.ratings : r.games_played = 2
    /\ Cardinality({g \in db.games : g.elo_applied}) = 2

\* An event one of the gates of the ingest loop is meant to reject: no game
\* identifier, no competitions, no home-tagged or no away-tagged competitor,
\* or no id or name of the team of either side.
Malformed(ev) ==
    \/ strip(ev.id) = ""
    \/ ~ev.has_comp
    \/ FirstTagged(ev.competitors, "home") = None
    \/ FirstTagged(ev.competitors, "away") = None
    \/ \E tag \in {"home", "away"} :
          LET c == FirstTagged(ev.competitors, tag)[1]
          IN  strip(c.team_id) = "" \/ strip(c.team_name) = ""

\* No two Game rows of a store share (provider, provider_game_id).
UniqueGames(store) ==
    \A g, h \in store.games :
       (g.provider = h.provider /\ g.provider_game_id = h.provider_game_id) => g = h

\* ------------------------------------------------------------------ C4
\* C4: an ingest call whose payload carries one game identifier in two
\* events, both past the gates of the loop and with readable timestamps,
\* returns, and the store it commits holds exactly one Game row of that
\* identity.
C4_DuplicateIdsInPayloadCommit ==
    [][(/\ pc = "ingest" /\ pc' = "idle"
        /\ last'.ev = None
        /\ \E i, j \in 1..Len(payload) :
              /\ i < j
              /\ ~Malformed(payload[i]) /\ ~Malformed(payload[j])
              /\ payload[i].id = payload[j].id)
       => /\ last'.err = ""
          /\ UniqueGames(db')
          /\ \A i \in 1..Len(payload) :
                ~Malformed(payload[i]) =>
                   \E g \in db'.games : g.provider_game_id = payload[i].id]_vars

\* ------------------------------------------------------------------ C5
\* C5: a game is rated, and a rating is created or changed, only by a rating
\* run and only for a game that was final, unrated and had both scores in
\* the store the run scanned; no step rates a game of any other status,
\* whatever scores it carries.
C5_OnlyRatableGamesRated ==
    [][/\ \A h \in db'.games :
             h.elo_applied =>
                \E g \in GameById(db, h.id) :
                   g.elo_applied \/ (pc = "apply" /\ g \in Ratable(db))
       /\ \A r \in db'.ratings \ db.ratings :
             /\ pc = "apply"
             /\ \E g \in Ratable(db) : r.team_id \in {g.home_team_id, g.away_team_id}]_vars

\* A rating run has rated one game and returned while a scheduled game with
\* both scores sat unrated in the store.
C5_Witness ==
    /\ last.op = "apply" /\ last.err = ""
    /\ last.ret[1].elo_games_applied = 1
    /\ \E g \in db.games : /\ g.status = "scheduled" /\ ~g.elo_applied
                           /\ g.home_score # None /\ g.away_score # None

\* ------------------------------------------------------------------ C6
\* C6: while an ingest call runs, the committed store changes at no step but
\* the commit that ends it with a return: a call that raises, on an event or
\* at commit, leaves the committed store as it was when the call began.
C6_IngestAllOrNothing ==
    [][(pc = "ingest" /\ ~Returns("ingest")) => db' = db]_vars

\* An ingest call has raised ValueError on an event after earlier events of
\* the batch had put rows into its session; the committed store has none.
C6_Witness ==
    /\ last.op = "ingest" /\ last.err = "ValueError"
    /\ last.lost
    /\ db = EmptyStore

\* ------------------------------------------------------------------ C7
\* C7: a malformed event never aborts the batch: the loop goes on to the next
\* event with no Team and no Game row created or changed and no count but
\* events_seen moved; and the counts returned are the number of events of the
\* payload and the number of its events that are not malformed.
C7_MalformedEventsSkipped ==
    [][pc = "ingest" =>
          /\ (pc' = "idle" /\ last'.ev # None) => ~Malformed(last'.ev[1])
          /\ (pc' = "ingest" /\ Malformed(payload'[Len(payload')])) =>
                (tx' = tx /\ stats' = stats)
          /\ Returns("ingest") =>
                /\ last'.ret[1].events_seen = Len(payload)
                /\ last'.ret[1].games_upserted =
                      Cardinality({i \in 1..Len(payload) : ~Malformed(payload[i])})]_vars

\* ------------------------------------------------------------------ C8
\* C8: no ingest call raises ValueError on an event whose timestamp is absent
\* or is no ISO-8601 text; and every Game of the session and of the committed
\* store has date_key "unknown" exactly when its start time is null.
C8_UnreadableTimestampIngested ==
    [][pc = "ingest" =>
          /\ (/\ pc' = "idle" /\ last'.ev # None
              /\ last'.ev[1].date.kind \in {"absent", "garbage"}) =>
                last'.err # "ValueError"
          /\ \A g \in db'.games \cup tx'.games \cup {tx'.pending[i] : i \in 1..Len(tx'.pending)} :
                (g.date_key = "unknown") <=> (g.start_time_utc = None)]_vars

\* ------------------------------------------------------------------ C9
\* C9: a rating run for one season never raises because a team of a ratable
\* game holds a rating of another season: it returns, every rating of
\* another season is as before, and both teams of every game it rated hold a
\* rating of the run's season.
C9_RatingPerTeamAndSeason ==
    [][(pc = "apply" /\ pc' = "idle") =>
          /\ last'.err = ""
          /\ \A r \in db.ratings : r.season # season => r \in db'.ratings
          /\ \A g \in Ratable(db) :
                \A t \in {g.home_team_id, g.away_team_id} :
                   \E r \in db'.ratings : r.team_id = t /\ r.season = season]_vars

\* ------------------------------------------------------------------ C10
\* C10: a step of an ingest call leaves every TeamRating and every stored
\* game's elo_applied as they were and adds games only with elo_applied
\* false; a step of a rating run leaves the Team rows as they were and
\* changes nothing of a Game row but elo_applied.
C10_DisjointWriteOwnership ==
    [][/\ pc = "ingest" =>
             /\ db'.ratings = db.ratings
             /\ \A g \in db.games : \E h \in GameById(db', g.id) : h.elo_applied = g.elo_applied
             /\ \A h \in db'.games : GameById(db, h.id) = {} => ~h.elo_applied
       /\ pc = "apply" =>
             /\ db'.teams = db.teams
             /\ {[g EXCEPT !.elo_applied = FALSE] : g \in db'.games}
                  = {[g EXCEPT !.elo_applied = FALSE] : g \in db.games}]_vars

\* An ingest call has returned after writing new scores, status and teams
\* into a game that is rated, with ratings in the store.
C10_Witness ==
    /\ last.op = "ingest" /\ last.err = ""
    /\ last.ret[1].games_upserted = 1
    /\ db.ratings # {}
    /\ \E g \in db.games : g.elo_applied /\ g.status = "in_progress"

\* A step that serves one predict request.
PredictStep == pc = "idle" /\ pc' = "idle" /\ last'.op = "predict"

\* The (team_id, season) rating of a store, as a set (empty if none).
RatingOf(store, team_id, seas) ==
    {r \in store.ratings : r.team_id = team_id /\ r.season = seas}

\* ------------------------------------------------------------------ C11
\* C11: a predict call leaves the committed store as it was (every Team,
\* Game and TeamRating row unchanged), and a team that has no rating for the
\* requested season is reported in the response at the baseline, 1500.0
\* with 0 games played.
C11_PredictReadOnlyBaseline ==
    [][PredictStep =>
         LET q == last'.ev[1]
             seas == SeasonOr(q.season)
             baseline == [elo |-> DEFAULT_ELO * Scale, games_played |-> 0]
         IN  /\ db' = db
             /\ RatingOf(db, q.home_team_id, seas) = {}
                  => last'.err = "" /\ last'.ret[1].home = baseline
             /\ RatingOf(db, q.away_team_id, seas) = {}
                  => last'.err = "" /\ last'.ret[1].away = baseline]_vars

\* The rating a (team_id, season) has in a store: the baseline when it has
\* no TeamRating.
EloOf(store, team_id, seas) ==
    LET rs == RatingOf(store, team_id, seas)
    IN  IF rs = {} THEN DEFAULT_ELO * Scale ELSE (CHOOSE r \in rs : TRUE).elo

\* The home side's result of a scored game, in 1/Scale: win, loss, draw.
HomeResult(g) ==
    IF g.home_score[1] > g.away_score[1] THEN Scale
    ELSE IF g.home_score[1] < g.away_score[1] THEN 0
    ELSE Scale \div 2

\* A step of a rating run that rates the game with surrogate id gid.
RatesGame(gid) ==
    /\ pc = "apply" /\ pc' = "apply"
    /\ gid \in todo /\ gid \notin todo'
    /\ \E g \in tx'.games : g.id = gid /\ g.elo_applied

\* ------------------------------------------------------------------ C12
\* C12: the rating engine and predict use the same home advantage: at a
\* neutral site the expectancy comes from the two ratings as they are; at a
\* non-neutral site exactly 65 points are added to the home side's rating
\* and nothing to the away side's.  This is the expectancy behind both
\* rating changes of a rated game, and behind home_win_prob and elo_gap of
\* a predict response.
C12_HomeAdvantageHomeOnly ==
    [][/\ \A gid \in todo : RatesGame(gid) =>
            LET g == CHOOSE q \in tx.games : q.id = gid
                bonus == IF g.neutral_site THEN 0 ELSE 65 * Scale
                h0 == EloOf(tx, g.home_team_id, season)
                a0 == EloOf(tx, g.away_team_id, season)
                e_home == expected_score(h0 + bonus, a0)
            IN  /\ EloOf(tx', g.home_team_id, season)
                     = h0 + k_factor(GamesPlayed(tx, g.home_team_id, season))
                            * (HomeResult(g) - e_home)
                /\ EloOf(tx', g.away_team_id, season)
                     = a0 + k_factor(GamesPlayed(tx, g.away_team_id, season))
                            * (e_home - HomeResult(g))
       /\ PredictStep /\ last'.err = "" =>
            LET b == last'.ret[1]
                bonus == IF b.neutral THEN 0 ELSE 65 * Scale
            IN  /\ b.home.elo = EloOf(db, b.home_team_id, b.season)
                /\ b.away.elo = EloOf(db, b.away_team_id, b.season)
                /\ b.home_win_prob = expected_score(b.home.elo + bonus, b.away.elo)
                /\ b.away_win_prob = Scale - b.home_win_prob
                /\ b.elo_gap = (b.home.elo + bonus) - b.away.elo
                /\ b.home_advantage_elo = bonus]_vars

\* A neutral-site game and a home game have been rated, the two teams hold
\* different ratings, and a non-neutral prediction has been served.
C12_Witness ==
    /\ last.op = "predict" /\ last.err = ""
    /\ ~last.ret[1].neutral
    /\ last.ret[1].home.elo # last.ret[1].away.elo
    /\ \E g \in db.games : g.elo_applied /\ g.neutral_site
    /\ \E g \in db.games : g.elo_applied /\ ~g.neutral_site

\* ------------------------------------------------------------------ C13
\* The K-factor the three tiers give for a games_played count.
TierK(games_played) ==
    IF games_played < 10 THEN 25
    ELSE IF games_played <= 24 THEN 20
    ELSE 17

\* C13: when a game is rated, each team's rating moves by its own K times
\* (result - expectancy), where K comes from that team's games_played as it
\* stood before the update: 25 (base 20 x 1.25) below 10 games, 20 from 10 to
\* 24 games, 17 (base 20 x 0.85) from 25 games on.
C13_KFactorTiers ==
    [][\A gid \in todo : RatesGame(gid) =>
         LET g == CHOOSE q \in tx.games : q.id = gid
             home_adj == IF g.neutral_site THEN 0 ELSE HOME_ADVANTAGE_ELO * Scale
             h0 == EloOf(tx, g.home_team_id, season)
             a0 == EloOf(tx, g.away_team_id, season)
             e_home == expected_score(h0 + home_adj, a0)
             k_home == TierK(GamesPlayed(tx, g.home_team_id, season))
             k_away == TierK(GamesPlayed(tx, g.away_team_id, season))
         IN  /\ EloOf(tx', g.home_team_id, season)
                  = h0 + k_home * (HomeResult(g) - e_home)
             /\ EloOf(tx', g.away_team_id, season)
                  = a0 + k_away * (e_home - HomeResult(g))
             /\ GamesPlayed(tx', g.home_team_id, season)
                  = GamesPlayed(tx, g.home_team_id, season) + 1
             /\ GamesPlayed(tx', g.away_team_id, season)
                  = GamesPlayed(tx, g.away_team_id, season) + 1]_vars

\* A game has been rated between a home team that had played exactly 10
\* games and an away team that had played exactly 25, and the ratings moved.
C13_Witness ==
    /\ pc = "idle"
    /\ \E g \in db.games : g.provider_game_id = "g1" /\ g.elo_applied
                           /\ g.home_score[1] > g.away_score[1]
    /\ GamesPlayed(db, 1, default_season) = 11
    /\ GamesPlayed(db, 2, default_season) = 26
    /\ EloOf(db, 1, default_season) \notin {e * Scale : e \in PriorElos}

\* ------------------------------------------------------------------ C14
\* C14: a game with both scores that the loop of a rating run takes is
\* rated, whatever the scores: the home result is 1 for a home win, 0 for a
\* home loss and 1/2 for equal scores, the away result is 1 minus the home
\* result, and each rating moves by K x (own result - own expectancy).  A
\* game with equal scores is neither skipped nor an error: a rating run
\* raises only when the store holds a rating of another season.
C14_TieIsHalfEach ==
    [][/\ \A gid \in todo :
            LET g == CHOOSE q \in tx.games : q.id = gid
                s_home == IF g.home_score[1] > g.away_score[1] THEN Scale
                          ELSE IF g.home_score[1] < g.away_score[1] THEN 0
                          ELSE Scale \div 2
                s_away == Scale - s_home
                home_adj == IF g.neutral_site THEN 0 ELSE HOME_ADVANTAGE_ELO * Scale
                h0 == EloOf(tx, g.home_team_id, season)
                a0 == EloOf(tx, g.away_team_id, season)
                e_home == expected_score(h0 + home_adj, a0)
                e_away == Scale - e_home
            IN  pc = "apply" /\ pc' = "apply" /\ gid \notin todo'
                /\ g.home_score # None /\ g.away_score # None
                => /\ RatesGame(gid)
                   /\ EloOf(tx', g.home_team_id, season)
                        = h0 + k_factor(GamesPlayed(tx, g.home_team_id, season))
                               * (s_home - e_home)
                   /\ EloOf(tx', g.away_team_id, season)
                        = a0 + k_factor(GamesPlayed(tx, g.away_team_id, season))
                               * (s_away - e_away)
       /\ Raises("apply") => \E r \in tx.ratings : r.season # season]_vars

\* A run has rated a game with equal scores between teams with different
\* ratings, at a neutral site, and both ratings moved.
C14_Witness ==
    /\ last.op = "apply" /\ last.err = ""
    /\ last.ret[1].elo_games_applied = 1
    /\ \E g \in db.games :
          /\ g.provider_game_id = "g1" /\ g.elo_applied
          /\ g.home_score = g.away_score /\ g.neutral_site
    /\ GamesPlayed(db, 1, default_season) = 10
    /\ EloOf(db, 1, default_season) \notin {e * Scale : e \in PriorElos}
    /\ EloOf(db, 2, default_season) \notin {e * Scale : e \in PriorElos}

\* ------------------------------------------------------------------ C15
\* Final, unrated, lacking a score.
Scoreless(store) ==
    {g \in store.games : g.status = "final" /\ ~g.elo_applied
                         /\ (g.home_score = None \/ g.away_score = None)}

\* C15: a rating run leaves a final game that lacks a score as it is: the
\* step that takes it changes neither a game nor a rating of the session.
\* The returned final_games_found minus elo_games_applied is the number of
\* final unrated games lacking a score, all of them committed unchanged; and
\* every final unrated game with both scores at the scan is rated by the
\* run, also one that lacked a score at an earlier run.
C15_ScorelessFinalLeftPending ==
    [][/\ \A gid \in todo :
            pc = "apply" /\ pc' = "apply" /\ gid \notin todo'
            /\ (\E g \in Scoreless(tx) : g.id = gid)
            => tx' = tx /\ stats' = stats
       /\ Returns("apply") =>
            /\ last'.ret[1].final_games_found - last'.ret[1].elo_games_applied
                 = Cardinality(Scoreless(db))
            /\ Scoreless(db) \subseteq db'.games
            /\ db'.ratings # db.ratings => Ratable(db) # {}
            /\ \A g \in Ratable(db) : [g EXCEPT !.elo_applied = TRUE] \in db'.games]_vars

\* A run has returned after finding one final game and rating none: the game
\* lacks its home score and is still unrated, and no rating exists.
C15_Witness ==
    /\ last.op = "apply" /\ last.err = ""
    /\ last.ret[1].final_games_found = 1
    /\ last.ret[1].elo_games_applied = 0
    /\ \E g \in Scoreless(db) : g.home_score = None /\ g.away_score # None
    /\ db.ratings = {}

\* ------------------------------------------------------------------ C16
\* C16: with two rating runs interleaved on one store, every rated game
\* counts once: in the committed store each team's games_played is the
\* number of rated games the team took part in.
C16_ConcurrentRunsCountOnce ==
    \A t \in db.teams :
       GamesPlayed(db, t.id, default_season)
         = Cardinality({g \in db.games :
                           g.elo_applied /\ t.id \in {g.home_team_id, g.away_team_id}})

\* ------------------------------------------------------------------ C17
\* The Game object the loop has just created or updated for event ev: the
\* row of the transaction with ev's identifier, or else the Game added last.
Upserted(sess, ev) ==
    LET rows == {g \in sess.games : g.provider_game_id = strip(ev.id)}
    IN  IF rows # {} THEN CHOOSE g \in rows : TRUE
        ELSE sess.pending[Len(sess.pending)]

\* C17: the status stored for an accepted event is final when the
\* status-type name contains FINAL (also next to IN_PROGRESS, also in a
\* longer name); otherwise in_progress when it contains IN_PROGRESS;
\* otherwise, and when status, type or name is missing, scheduled.  Every
\* Game of the committed store and of a session has one of these three.
C17_StatusPrioritizedMatch ==
    [][/\ pc = "ingest" /\ pc' = "ingest"
          /\ stats'.games_upserted = stats.games_upserted + 1
          => LET ev == payload'[Len(payload')]
                 name == ev.status.words
             IN  Upserted(tx', ev).status
                   = IF ~ev.status.present THEN "scheduled"
                     ELSE IF \E i \in 1..Len(name) : name[i] = "FINAL" THEN "final"
                     ELSE IF \E i \in 1..Len(name) : name[i] = "IN_PROGRESS"
                          THEN "in_progress"
                     ELSE "scheduled"
       /\ \A g \in db'.games \cup tx'.games \cup {tx'.pending[i] : i \in 1..Len(tx'.pending)} :
             g.status \in {"scheduled", "in_progress", "final"}]_vars

\* The loop has just stored `final` for an event named
\* STATUS_IN_PROGRESS_FINAL, on a game that is committed as in_progress and
\* that the event before had set to scheduled.
C17_Witness ==
    /\ pc = "ingest"
    /\ Len(payload) = 2
    /\ payload[1].status = STATUS_SCHEDULED
    /\ payload[2].status = STATUS_IN_PROGRESS_FINAL
    /\ payload[1].id = payload[2].id
    /\ \E g \in db.games : g.provider_game_id = payload[2].id /\ g.status = "in_progress"
    /\ Upserted(tx, payload[2]).status = "final"

\* ------------------------------------------------------------------ C18
\* No two Team rows of a store share (provider, provider_team_id) or an id.
UniqueTeams(store) ==
    \A t, u \in store.teams :
       (t.id = u.id \/ (t.provider = u.provider
                        /\ t.provider_team_id = u.provider_team_id)) => t = u

\* The name event ev carries for the team provider_team_id, "" when ev is
\* malformed or does not mention it; the away competitor is written last.
NameCarried(ev, provider_team_id) ==
    IF Malformed(ev) THEN ""
    ELSE LET home == FirstTagged(ev.competitors, "home")[1]
             away == FirstTagged(ev.competitors, "away")[1]
         IN  IF strip(away.team_id) = provider_team_id THEN strip(away.team_name)
             ELSE IF strip(home.team_id) = provider_team_id THEN strip(home.team_name)
             ELSE ""

\* The name carried by the last event of evs that mentions the team; `name`
\* when none does.
RECURSIVE LastName(_, _, _)
LastName(evs, provider_team_id, name) ==
    IF evs = <<>> THEN name
    ELSE LET n == NameCarried(Head(evs), provider_team_id)
         IN  LastName(Tail(evs), provider_team_id, IF n # "" THEN n ELSE name)

\* C18: a store never holds two Team rows of one (provider,
\* provider_team_id); a committed Team row is never removed and keeps its id;
\* after an ingest call that returns, a team's name is the one carried by the
\* last valid event of the payload that mentions it (also when the payload
\* names it twice), and the name it had when no event mentions it; no other
\* step changes a committed Team.
C18_TeamsCreatedOnceRenamed ==
    [][/\ UniqueTeams(db') /\ UniqueTeams(tx')
       /\ \A t \in db.teams : \E u \in db'.teams :
             /\ u.id = t.id /\ u.provider = t.provider
             /\ u.provider_team_id = t.provider_team_id
       /\ Returns("ingest") =>
             \A u \in db'.teams :
                LET was == {t \in db.teams : t.id = u.id}
                IN  u.name = LastName(payload, u.provider_team_id,
                                      IF was = {} THEN ""
                                      ELSE (CHOOSE t \in was : TRUE).name)
       /\ ~Returns("ingest") => db'.teams = db.teams]_vars

\* Team t1, created as 1 and renamed "Alpha A" by the event that brought
\* team t3, carries the name "Alpha" again after a two-event ingest.
C18_Witness ==
    /\ last.op = "ingest" /\ last.err = ""
    /\ last.ret[1].events_seen = 2
    /\ \E t \in db.teams : t.provider_team_id = "t3" /\ t.id = 3
    /\ \E t \in db.teams : t.provider_team_id = "t1" /\ t.id = 1 /\ t.name = "Alpha"

\* ------------------------------------------------------------------ C19
\* The sum of games_played over a set of TeamRating rows.
RECURSIVE SumPlayed(_)
SumPlayed(ratings) ==
    IF ratings = {} THEN 0
    ELSE LET r == CHOOSE q \in ratings : TRUE
         IN  r.games_played + SumPlayed(ratings \ {r})

\* All ratings of the store belong to one season.
SingleSeason(store) == \A r, q \in store.ratings : r.season = q.season

\* C19: with ingest, rating and predict calls run one after another on a
\* store of a single season, the committed games_played counts add up to
\* twice the number of committed games with elo_applied, and no committed
\* rating is removed or has its games_played lowered.
C19_GamesPlayedAccounting ==
    [][/\ SingleSeason(db') =>
            SumPlayed(db'.ratings)
              = 2 * Cardinality({g \in db'.games : g.elo_applied})
       /\ \A r \in db.ratings :
             /\ RatingOf(db', r.team_id, r.season) # {}
             /\ GamesPlayed(db', r.team_id, r.season) >= r.games_played]_vars

\* After ingests and two rating runs that rated a game each, a prediction
\* was served between the two teams, each with two games played.
C19_Witness ==
    /\ last.op = "predict" /\ last.err = ""
    /\ last.ret[1].home.games_played = 2
    /\ last.ret[1].away.games_played = 2
    /\ Cardinality({g \in db.games : g.elo_applied}) = 2
    /\ SumPlayed(db.ratings) = 4
    /\ nApply = 2

\* ------------------------------------------------------------------ C20
\* C20: when a game between two distinct teams is rated, the winner's rating
\* does not go down and the loser's does not go up: after a home win the home
\* rating is at least what it was and the away rating at most what it was,
\* and the other way round after an away win.
C20_RatingFollowsResult ==
    [][\A gid \in todo : RatesGame(gid) =>
         LET g == CHOOSE q \in tx.games : q.id = gid
             h0 == EloOf(tx, g.home_team_id, season)
             a0 == EloOf(tx, g.away_team_id, season)
             h1 == EloOf(tx', g.home_team_id, season)
             a1 == EloOf(tx', g.away_team_id, season)
         IN  g.home_team_id # g.away_team_id
             => /\ g.home_score[1] > g.away_score[1] => h1 >= h0 /\ a1 <= a0
                /\ g.home_score[1] < g.away_score[1] => h1 <= h0 /\ a1 >= a0]_vars

\* The lower-rated away side has won at the higher-rated team's home, the
\* two in different K tiers, and both ratings moved.
C20_Witness ==
    /\ pc = "idle"
    /\ \E g \in db.games : /\ g.provider_game_id = "g1" /\ g.elo_applied
                           /\ g.home_score[1] < g.away_score[1]
                           /\ ~g.neutral_site
    /\ GamesPlayed(db, 1, default_season) = 26
    /\ GamesPlayed(db, 2, default_season) = 10
    /\ EloOf(db, 1, default_season) < 1565 * Scale
    /\ EloOf(db, 2, default_season) > 1300 * Scale
    /\ EloOf(db, 2, default_season) < 1500 * Scale

====
